---- MODULE Spec2Model ----
(***************************************************************************)
(* Model of src/compiler/compiler.ts (class Compiler): the compile -> run  *)
(* orchestration built on rxjs observables, its public setters, and the    *)
(* collaborators it drives (CompilerLoader, CommandBuilder,                *)
(* ProcessWrapper).                                                        *)
(*                                                                         *)
(* Strings are sequences of tokens (a token is a TLA+ string), so that     *)
(* concatenation (result += output), trim() and placeholder substitution   *)
(* are computed.  The empty sequence stands for both '' and undefined of a *)
(* string field: the code only ever tests such fields for truthiness.      *)
(* A number field that may be undefined is a record [def, val].            *)
(***************************************************************************)
EXTENDS Integers, Sequences, FiniteSets, TLC

VARIABLES
    configs,      \* this.configs (ICompilerConfigs)
    pc,           \* per subscription: position of its orchestration
    lookup,       \* per subscription: its request to CompilerLoader
    compiler,     \* per subscription: the descriptor loadCompiler() emitted
    procs,        \* per subscription: the ProcessWrappers it constructed, in order
    delivered,    \* per subscription: notifications received by its subscriber
    unhandled,    \* per subscription: errors sent where there is no error callback
    raised,       \* per subscription: errors run() signalled on its own observer
    clock,        \* process.hrtime(): [s, ns]
    userTimeout,  \* last timeout the user gave (options or setter)
    userInputs,   \* last input lines the user gave (options or setter)
    setterCalls,  \* number of setter calls made so far
    created       \* execute() was called: its observable exists

vars == <<configs, pc, lookup, compiler, procs, delivered, unhandled, raised, clock,
          userTimeout, userInputs, setterCalls, created>>

-----------------------------------------------------------------------------
(* Bounds *)

MaxSubscriptions == 2
MaxSetterCalls == 1
MaxChunks == 2
MaxTicks == 1

-----------------------------------------------------------------------------
(* Values *)

SUCCESS_CODE == 0

Undefined == [def |-> FALSE, val |-> 0]
Num(n) == [def |-> TRUE, val |-> n]

\* JavaScript truthiness of a number that may be undefined
TruthyNum(t) == t.def /\ t.val # 0
\* JavaScript truthiness of a string that may be undefined
TruthyStr(s) == Len(s) > 0

NsPerSec == 1000000000
NsPerMs == 1000000
TickMs == 1500
TickFracNs == 250000

MissingRunCommand == [name |-> "CompilationError", message |-> "runCommand not found."]
FailedToCompile == [name |-> "CompilationError", message |-> "Failed to compile."]
LoadErrors == {[name |-> "Error", message |-> "Compiler not found."]}

NextOf(v) == [kind |-> "next", value |-> v]
ErrorOf(e) == [kind |-> "error", value |-> e]
Complete == [kind |-> "complete"]

\* Subscriber: nothing is delivered once error() or complete() was received
IsStopped(d) == \E i \in 1..Len(d) : d[i].kind \in {"error", "complete"}
RECURSIVE Notify(_, _)
Notify(d, ns) ==
    IF ns = <<>> THEN d
    ELSE Notify(IF IsStopped(d) THEN d ELSE Append(d, Head(ns)), Tail(ns))

-----------------------------------------------------------------------------
(* Strings *)

\* String.prototype.trim(): strip the blanks at both ends
RECURSIVE TrimLeft(_)
TrimLeft(s) == IF s # <<>> /\ Head(s) = " " THEN TrimLeft(Tail(s)) ELSE s
RECURSIVE TrimRight(_)
TrimRight(s) ==
    IF s # <<>> /\ s[Len(s)] = " " THEN TrimRight(SubSeq(s, 1, Len(s) - 1)) ELSE s
trim(s) == TrimRight(TrimLeft(s))

Digits == <<"0", "1", "2", "3", "4", "5", "6", "7", "8", "9">>
RECURSIVE NatToString(_)
NatToString(n) ==
    IF n < 10 THEN <<Digits[n + 1]>>
    ELSE NatToString(n \div 10) \o <<Digits[(n % 10) + 1]>>

\* value.toString() of a string | number | boolean
toString(value) ==
    CASE value.t = "string" -> value.v
      [] value.t = "number" ->
            IF value.v < 0 THEN <<"-">> \o NatToString(0 - value.v)
            ELSE NatToString(value.v)
      [] value.t = "boolean" -> IF value.v THEN <<"true">> ELSE <<"false">>

\* Map.prototype.set
MapSet(m, k, v) == [n \in DOMAIN m \cup {k} |-> IF n = k THEN v ELSE m[n]]
EmptyMap == [n \in {} |-> <<>>]

-----------------------------------------------------------------------------
(* CommandBuilder: substitution of {name} placeholders *)

\* index of the first "}" of t after position 1, 0 when there is none
FirstClose(t) ==
    IF \E j \in 2..Len(t) : t[j] = "}"
    THEN CHOOSE j \in 2..Len(t) : t[j] = "}" /\ \A i \in 2..(j - 1) : t[i] # "}"
    ELSE 0

RECURSIVE buildCommand(_, _)
buildCommand(t, variables) ==
    IF t = <<>> THEN <<>>
    ELSE IF Head(t) = "{" /\ FirstClose(t) # 0
    THEN LET j == FirstClose(t)
             name == SubSeq(t, 2, j - 1)
             rest == SubSeq(t, j + 1, Len(t))
         IN  IF name \in DOMAIN variables
             THEN variables[name] \o buildCommand(rest, variables)
             ELSE SubSeq(t, 1, j) \o buildCommand(rest, variables)
    ELSE <<Head(t)>> \o buildCommand(Tail(t), variables)

\* CommandBuilder.putVariables: merge a map into the builder's variables
putVariables(own, variables) ==
    [n \in DOMAIN own \cup DOMAIN variables |->
        IF n \in DOMAIN variables THEN variables[n] ELSE own[n]]

-----------------------------------------------------------------------------
(* Compiler: setters and descriptor resolution *)

executionTimeout(cfg, value) == [cfg EXCEPT !.executionTimeout = Num(value)]

\* putVariable that tests the trimmed name but stores under the name as given
putVariable_Untrimmed(cfg, name, value) ==
    IF Len(trim(name)) > 0
    THEN [cfg EXCEPT !.variables = MapSet(cfg.variables, name, toString(value))]
    ELSE cfg

putVariable(cfg, name, value) ==
    IF Len(trim(name)) > 0
    THEN [cfg EXCEPT !.variables = MapSet(cfg.variables, trim(name), toString(value))]
    ELSE cfg

\* onInputRequested that appends to the pending inputs
onInputRequested_Appending(cfg, inputs) == [cfg EXCEPT !.inputs = @ \o inputs]

onInputRequested(cfg, inputs) == [cfg EXCEPT !.inputs = inputs]

configureCommand(cfg, command) ==
    buildCommand(command, putVariables(putVariables(EmptyMap, cfg.variables), cfg.variables))

configureDefaultOptions(cfg) ==
    [cfg EXCEPT !.filePath = IF TruthyStr(cfg.filePath) THEN cfg.filePath ELSE <<"./">>]

\* optionsParser that always takes the toolchain's timeout
optionsParser_AlwaysDefault(cfg, c) ==
    [cfg EXCEPT !.filePath = c.filePath,
                !.executionTimeout = c.executionTimeout,
                !.compileCommand = c.compileCommand,
                !.runCommand = c.runCommand]

optionsParser(cfg, c) ==
    [cfg EXCEPT !.filePath = c.filePath,
                !.executionTimeout = IF TruthyNum(cfg.executionTimeout)
                                     THEN cfg.executionTimeout
                                     ELSE c.executionTimeout,
                !.compileCommand = c.compileCommand,
                !.runCommand = c.runCommand]

-----------------------------------------------------------------------------
(* Compiler.run and the ProcessWrapper it constructs *)

\* process.hrtime(started): the [s, ns] elapsed since started
hrtime(started, now) ==
    IF now.ns - started.ns < 0
    THEN [s |-> now.s - started.s - 1, ns |-> now.ns - started.ns + NsPerSec]
    ELSE [s |-> now.s - started.s, ns |-> now.ns - started.ns]

\* a duration in milliseconds as a JavaScript number holds it: the whole
\* milliseconds and the fraction of a millisecond, in nanoseconds
Millis(ms, ns) == [ms |-> ms + ns \div NsPerMs, frac |-> ns % NsPerMs]

\* took[1] / 1000000: the nanosecond part of an hrtime pair, in milliseconds
TookOf(took) == Millis(0, took.ns)

\* wall-clock time since started, in milliseconds
Elapsed(started, now) ==
    Millis(hrtime(started, now).s * 1000, hrtime(started, now).ns)

\* whole wall-clock milliseconds since started
ElapsedMs(started, now) == Elapsed(started, now).ms

\* the moment ms milliseconds and ns nanoseconds after the moment t
After(t, ms, ns) ==
    LET n == t.ns + (ms % 1000) * NsPerMs + ns
    IN  [s |-> t.s + ms \div 1000 + n \div NsPerSec, ns |-> n % NsPerSec]

\* the moment a is before the moment b
Earlier(a, b) == a.s < b.s \/ (a.s = b.s /\ a.ns < b.ns)

\* run() signals 'runCommand not found.' on its observer and goes on: the
\* statements after the if/else still construct a ProcessWrapper, with the
\* empty command, whose events then reach a stopped observer
RunRaises(cfg) == ~TruthyStr(cfg.runCommand)

\* The body of run(...inputs) up to the subscriptions: the ProcessWrapper it
\* constructs, the input it writes, and the state of its own observer.
\* phase is the call site (compile() or compileAndRun()).
run(cfg, inputs, phase, now) ==
    [phase |-> phase,
     template |-> IF TruthyStr(cfg.runCommand) THEN cfg.runCommand ELSE <<>>,
     command |-> IF TruthyStr(cfg.runCommand)
                 THEN configureCommand(cfg, cfg.runCommand)
                 ELSE <<>>,
     currentDirectory |-> cfg.filePath,
     executionTimeout |-> cfg.executionTimeout,
     started |-> now,
     finished |-> now,
     log |-> IF Len(inputs) > 0
             THEN <<[e |-> "writeInput", lines |-> inputs]>>
             ELSE <<>>,
     result |-> <<>>,
     status |-> "live",
     returnCode |-> Undefined,
     emitted |-> <<>>,
     observer |-> IF RunRaises(cfg) THEN "stopped" ELSE "open"]

Writes(p) == SelectSeq(p.log, LAMBDA ev : ev.e = "writeInput")
Chunks(p) == SelectSeq(p.log, LAMBDA ev : ev.e \in {"output", "error"})
Kills(p) == SelectSeq(p.log, LAMBDA ev : ev.e = "kill")

\* number of chunks that the subprocesses of ps have emitted so far
RECURSIVE ChunksOf(_)
ChunksOf(ps) ==
    IF ps = <<>> THEN 0 ELSE Len(Chunks(Head(ps))) + ChunksOf(Tail(ps))

\* the same over the subprocesses of every subscription
RECURSIVE TotalChunks(_)
TotalChunks(pss) ==
    IF pss = <<>> THEN 0 ELSE ChunksOf(Head(pss)) + TotalChunks(Tail(pss))

\* the value run() emits from proc.onFinish()
runOutput(p, returnCode, now) ==
    [data |-> p.result,
     returnCode |-> returnCode,
     took |-> TookOf(hrtime(p.started, now))]

\* ProcessWrapper: the timeout of a live process is due
TimeoutDue(p, now) ==
    /\ p.status = "live"
    /\ TruthyNum(p.executionTimeout)
    /\ p.executionTimeout.val > 0
    /\ ElapsedMs(p.started, now) >= p.executionTimeout.val

KilledReturnCode == 143

-----------------------------------------------------------------------------
(* Inputs *)

CompileTemplate == <<"cc", " ", "{", "file", "}">>
RunTemplate == <<"interp", " ", "{", "file", "}">>
UserCompile == <<"make">>
UserRun == <<"start">>

Toolchains ==
    [filePath : {<<"/work">>},
     compileCommand : {<<>>, CompileTemplate},
     runCommand : {<<>>, RunTemplate},
     executionTimeout : {Num(3000)}]

NoCompiler ==
    [filePath |-> <<>>, compileCommand |-> <<>>, runCommand |-> <<>>,
     executionTimeout |-> Undefined]

InitConfigs ==
    [filePath : {<<>>},
     executionTimeout : {Undefined, Num(1500)},
     compileCommand : {UserCompile},
     runCommand : {UserRun},
     variables : {EmptyMap},
     inputs : {<<<<"5">>>>}]

TimeoutValues == {0, 0 - 500}
VariableNames == {<<" ", "file", " ">>}
VariableValues == {[t |-> "number", v |-> 5]}
InputLists == {<<<<"5">>, <<"6">>>>}
OutputChunks == {<<"out">>}
ErrorChunks == {<<"syntax error">>}
ReturnCodes == {0, 1}

-----------------------------------------------------------------------------
(* State machine *)

Init ==
    /\ configs \in InitConfigs
    /\ pc = <<>>
    /\ lookup = <<>>
    /\ compiler = <<>>
    /\ procs = <<>>
    /\ delivered = <<>>
    /\ unhandled = <<>>
    /\ raised = <<>>
    /\ clock = [s |-> 0, ns |-> 0]
    /\ userTimeout = configs.executionTimeout
    /\ userInputs = configs.inputs
    /\ setterCalls = 0
    /\ created = FALSE

\* compiler.executionTimeout(value)
SetExecutionTimeout(value) ==
    /\ setterCalls < MaxSetterCalls
    /\ configs' = executionTimeout(configs, value)
    /\ userTimeout' = Num(value)
    /\ setterCalls' = setterCalls + 1
    /\ UNCHANGED <<pc, lookup, compiler, procs, delivered, unhandled, raised, clock,
                   userInputs, created>>

\* compiler.putVariable(name, value)
PutVariable(name, value) ==
    /\ setterCalls < MaxSetterCalls
    /\ configs' = putVariable(configs, name, value)
    /\ setterCalls' = setterCalls + 1
    /\ UNCHANGED <<pc, lookup, compiler, procs, delivered, unhandled, raised, clock,
                   userTimeout, userInputs, created>>

\* compiler.onInputRequested(...inputs)
OnInputRequested(inputs) ==
    /\ setterCalls < MaxSetterCalls
    /\ configs' = onInputRequested(configs, inputs)
    /\ userInputs' = inputs
    /\ setterCalls' = setterCalls + 1
    /\ UNCHANGED <<pc, lookup, compiler, procs, delivered, unhandled, raised, clock,
                   userTimeout, created>>

\* ExecuteCall that applies the default options when execute() is called
ExecuteCall_Eager ==
    /\ created' = TRUE
    /\ configs' = configureDefaultOptions(configs)
    /\ UNCHANGED <<pc, lookup, compiler, procs, delivered, unhandled, raised,
                   clock, userTimeout, userInputs, setterCalls>>

\* compiler.execute(): returns an observable, nothing runs yet.  Every
\* observable it returns runs the same body on the same instance, so the
\* model keeps only whether one exists.
ExecuteCall ==
    /\ created' = TRUE
    /\ UNCHANGED <<configs, pc, lookup, compiler, procs, delivered, unhandled, raised,
                   clock, userTimeout, userInputs, setterCalls>>

\* execute().subscribe(...): configureDefaultOptions(), then loadCompiler(),
\* for a new observer; earlier subscriptions go on
Execute ==
    /\ created
    /\ Len(pc) < MaxSubscriptions
    /\ configs' = configureDefaultOptions(configs)
    /\ pc' = Append(pc, "ResolvingToolchain")
    /\ lookup' = Append(lookup, "pending")
    /\ compiler' = Append(compiler, NoCompiler)
    /\ procs' = Append(procs, <<>>)
    /\ delivered' = Append(delivered, <<>>)
    /\ unhandled' = Append(unhandled, <<>>)
    /\ raised' = Append(raised, <<>>)
    /\ UNCHANGED <<clock, userTimeout, userInputs, setterCalls, created>>

\* compileAndRunNext where a skipped compile step does not count as a success
compileAndRunNext_SkippedCompileFails(s, cfg, compileOutput, ps) ==
    IF /\ compileOutput.returnCode = SUCCESS_CODE
       /\ TruthyStr(cfg.runCommand)
       /\ TruthyStr(cfg.compileCommand)
    THEN /\ procs' = [procs EXCEPT ![s] = Append(ps, run(cfg, cfg.inputs, "run", clock))]
         /\ raised' = raised
         /\ delivered' = delivered
         /\ pc' = [pc EXCEPT ![s] = "Running"]
    ELSE /\ procs' = [procs EXCEPT ![s] = ps]
         /\ raised' = raised
         /\ IF ~TruthyStr(cfg.runCommand)
            THEN /\ delivered' = [delivered EXCEPT
                                    ![s] = Notify(@, <<ErrorOf(MissingRunCommand)>>)]
                 /\ pc' = [pc EXCEPT ![s] = "Failed"]
            ELSE IF compileOutput.returnCode # 0
            THEN /\ delivered' = [delivered EXCEPT
                                    ![s] = Notify(@, <<NextOf(compileOutput), Complete>>)]
                 /\ pc' = [pc EXCEPT ![s] = "Done"]
            ELSE /\ delivered' = [delivered EXCEPT
                                    ![s] = Notify(@, <<ErrorOf(FailedToCompile)>>)]
                 /\ pc' = [pc EXCEPT ![s] = "Failed"]

\* The next-callback that compileAndRun() gives to compile(), in subscription
\* s whose subprocesses so far are ps
compileAndRunNext(s, cfg, compileOutput, ps) ==
    IF compileOutput.returnCode = SUCCESS_CODE /\ TruthyStr(cfg.runCommand)
    THEN /\ procs' = [procs EXCEPT ![s] = Append(ps, run(cfg, cfg.inputs, "run", clock))]
         /\ raised' = IF RunRaises(cfg)
                      THEN [raised EXCEPT ![s] = Append(@, MissingRunCommand)]
                      ELSE raised
         /\ delivered' = IF RunRaises(cfg)
                         THEN [delivered EXCEPT
                                 ![s] = Notify(@, <<ErrorOf(MissingRunCommand)>>)]
                         ELSE delivered
         /\ pc' = [pc EXCEPT ![s] = IF RunRaises(cfg) THEN "Failed" ELSE "Running"]
    ELSE /\ procs' = [procs EXCEPT ![s] = ps]
         /\ raised' = raised
         /\ IF ~TruthyStr(cfg.runCommand)
            THEN /\ delivered' = [delivered EXCEPT
                                    ![s] = Notify(@, <<ErrorOf(MissingRunCommand)>>)]
                 /\ pc' = [pc EXCEPT ![s] = "Failed"]
            ELSE IF compileOutput.returnCode # 0
            THEN /\ delivered' = [delivered EXCEPT
                                    ![s] = Notify(@, <<NextOf(compileOutput), Complete>>)]
                 /\ pc' = [pc EXCEPT ![s] = "Done"]
            ELSE /\ delivered' = [delivered EXCEPT
                                    ![s] = Notify(@, <<ErrorOf(FailedToCompile)>>)]
                 /\ pc' = [pc EXCEPT ![s] = "Failed"]

\* loadCompiler() of subscription s emits the descriptor c: optionsParser(c),
\* compileAndRun()
LoadCompilerNext(s, c) ==
    /\ s \in DOMAIN pc
    /\ pc[s] = "ResolvingToolchain"
    /\ lookup' = [lookup EXCEPT ![s] = "answered"]
    /\ compiler' = [compiler EXCEPT ![s] = c]
    /\ configs' = optionsParser(configs, c)
    /\ IF TruthyStr(configs'.compileCommand)
       THEN \* compile(): this.run(this.configs.compileCommand)
            /\ procs' = [procs EXCEPT ![s] =
                    Append(@, run(configs', <<configs'.compileCommand>>, "compile", clock))]
            /\ raised' = IF RunRaises(configs')
                         THEN [raised EXCEPT ![s] = Append(@, MissingRunCommand)]
                         ELSE raised
            \* compile() forwards the error; compileAndRun() subscribed to
            \* compile() without an error callback
            /\ unhandled' = IF RunRaises(configs')
                            THEN [unhandled EXCEPT ![s] = Append(@, MissingRunCommand)]
                            ELSE unhandled
            /\ delivered' = delivered
            /\ pc' = [pc EXCEPT ![s] = "Compiling"]
       ELSE \* compile(): no need to compile
            /\ compileAndRunNext(s, configs', [returnCode |-> SUCCESS_CODE], procs[s])
            /\ unhandled' = unhandled
    /\ UNCHANGED <<clock, userTimeout, userInputs, setterCalls, created>>

\* LoadCompilerError that applies the toolchain defaults and drops the error
LoadCompilerError_Swallowed(s, error) ==
    /\ s \in DOMAIN pc
    /\ pc[s] = "ResolvingToolchain"
    /\ delivered' = delivered
    /\ pc' = [pc EXCEPT ![s] = "Failed"]
    /\ lookup' = [lookup EXCEPT ![s] = "failed"]
    /\ UNCHANGED <<configs, compiler, procs, unhandled, raised, clock,
                   userTimeout, userInputs, setterCalls, created>>

\* loadCompiler() of subscription s fails
LoadCompilerError(s, error) ==
    /\ s \in DOMAIN pc
    /\ pc[s] = "ResolvingToolchain"
    /\ delivered' = [delivered EXCEPT ![s] = Notify(@, <<ErrorOf(error)>>)]
    /\ pc' = [pc EXCEPT ![s] = "Failed"]
    /\ lookup' = [lookup EXCEPT ![s] = "failed"]
    /\ UNCHANGED <<configs, compiler, procs, unhandled, raised, clock,
                   userTimeout, userInputs, setterCalls, created>>

\* the subprocess that subscription s constructed last
HasProc(s) == s \in DOMAIN procs /\ procs[s] # <<>>
Last(s) == procs[s][Len(procs[s])]
WithLast(s, p) == [procs[s] EXCEPT ![Len(procs[s])] = p]

\* ProcChunk that puts the new chunk in front of the accumulated text
ProcChunk_Prepending(s, stream, chunk) ==
    /\ HasProc(s)
    /\ Last(s).status = "live"
    /\ TotalChunks(procs) < MaxChunks
    /\ procs' = [procs EXCEPT ![s] = WithLast(s, [Last(s) EXCEPT
                    !.result = chunk \o @,
                    !.log = Append(@, [e |-> stream, chunk |-> chunk])])]
    /\ UNCHANGED <<configs, pc, lookup, compiler, delivered, unhandled, raised, clock,
                   userTimeout, userInputs, setterCalls, created>>

\* proc.onOutput() / proc.onError() emit a chunk: result += chunk
ProcChunk(s, stream, chunk) ==
    /\ HasProc(s)
    /\ Last(s).status = "live"
    /\ TotalChunks(procs) < MaxChunks
    /\ procs' = [procs EXCEPT ![s] = WithLast(s, [Last(s) EXCEPT
                    !.result = @ \o chunk,
                    !.log = Append(@, [e |-> stream, chunk |-> chunk])])]
    /\ UNCHANGED <<configs, pc, lookup, compiler, delivered, unhandled, raised, clock,
                   userTimeout, userInputs, setterCalls, created>>

ProcOutput(s, chunk) == ProcChunk(s, "output", chunk)
ProcError(s, chunk) == ProcChunk(s, "error", chunk)

\* whole wall-clock milliseconds since construction
NowMs == ElapsedMs([s |-> 0, ns |-> 0], clock)

\* the moments at which the kill timer of a live subprocess fires
DueTimes ==
    {After(Last(s).started, Last(s).executionTimeout.val, 0) :
        s \in {t \in DOMAIN procs : /\ HasProc(t)
                                    /\ Last(t).status = "live"
                                    /\ TruthyNum(Last(t).executionTimeout)
                                    /\ Last(t).executionTimeout.val > 0}}

\* time passes while a subprocess runs: to the next kill timer, or by one tick
\* (TickMs milliseconds and TickFracNs nanoseconds) when none fires earlier
Tick ==
    /\ \E s \in DOMAIN procs : HasProc(s) /\ Last(s).status = "live"
    /\ \A s \in DOMAIN procs : HasProc(s) => ~TimeoutDue(Last(s), clock)
    /\ NowMs < MaxTicks * TickMs
    /\ clock' = LET moments == DueTimes \cup {After(clock, TickMs, TickFracNs)}
                IN  CHOOSE x \in moments : \A y \in moments : x = y \/ Earlier(x, y)
    /\ UNCHANGED <<configs, pc, lookup, compiler, procs, delivered, unhandled, raised,
                   userTimeout, userInputs, setterCalls, created>>

\* ProcessWrapper: executionTimeout elapsed, the subprocess is killed
ProcTimeout(s) ==
    /\ HasProc(s)
    /\ TimeoutDue(Last(s), clock)
    /\ procs' = [procs EXCEPT ![s] = WithLast(s, [Last(s) EXCEPT
                    !.status = "killed",
                    !.log = Append(@, [e |-> "kill"])])]
    /\ UNCHANGED <<configs, pc, lookup, compiler, delivered, unhandled, raised, clock,
                   userTimeout, userInputs, setterCalls, created>>

\* proc.onFinish() emits returnCode
OnFinish(s, returnCode) ==
    LET p == Last(s)
        output == runOutput(p, returnCode, clock)
        ps == WithLast(s, [p EXCEPT !.status = "exited",
                                    !.finished = clock,
                                    !.returnCode = Num(returnCode),
                                    !.log = Append(@, [e |-> "finish"]),
                                    !.emitted = IF p.observer = "open"
                                                THEN <<output>> ELSE <<>>,
                                    !.observer = "stopped"])
    IN  /\ IF p.observer = "open"
           THEN IF p.phase = "compile"
                THEN compileAndRunNext(s, configs, output, ps)
                ELSE /\ procs' = [procs EXCEPT ![s] = ps]
                     /\ raised' = raised
                     /\ delivered' = [delivered EXCEPT
                                        ![s] = Notify(@, <<NextOf(output), Complete>>)]
                     /\ pc' = [pc EXCEPT ![s] = "Done"]
           ELSE /\ procs' = [procs EXCEPT ![s] = ps]
                /\ UNCHANGED <<raised, delivered, pc>>
        /\ UNCHANGED <<configs, lookup, compiler, unhandled, clock, userTimeout,
                       userInputs, setterCalls, created>>

\* the subprocess terminates on its own
ProcFinish(s, returnCode) ==
    /\ HasProc(s)
    /\ Last(s).status = "live"
    /\ OnFinish(s, returnCode)

\* the exit event of a subprocess that was killed on timeout
ProcKilledFinish(s) ==
    /\ HasProc(s)
    /\ Last(s).status = "killed"
    /\ OnFinish(s, KilledReturnCode)

Subscriptions == 1..MaxSubscriptions

Next ==
    \/ \E value \in TimeoutValues : SetExecutionTimeout(value)
    \/ \E name \in VariableNames, value \in VariableValues : PutVariable(name, value)
    \/ \E inputs \in InputLists : OnInputRequested(inputs)
    \/ ExecuteCall
    \/ Execute
    \/ \E s \in Subscriptions, c \in Toolchains : LoadCompilerNext(s, c)
    \/ \E s \in Subscriptions, error \in LoadErrors : LoadCompilerError(s, error)
    \/ \E s \in Subscriptions, chunk \in OutputChunks : ProcOutput(s, chunk)
    \/ \E s \in Subscriptions, chunk \in ErrorChunks : ProcError(s, chunk)
    \/ Tick
    \/ \E s \in Subscriptions : ProcTimeout(s)
    \/ \E s \in Subscriptions, returnCode \in ReturnCodes : ProcFinish(s, returnCode)
    \/ \E s \in Subscriptions : ProcKilledFinish(s)

Spec == Init /\ [][Next]_vars

\* The callers that finish configuring the instance before they call execute()
SettersFirstNext ==
    \/ ~created /\ \E value \in TimeoutValues : SetExecutionTimeout(value)
    \/ ~created /\ \E name \in VariableNames, value \in VariableValues : PutVariable(name, value)
    \/ ~created /\ \E inputs \in InputLists : OnInputRequested(inputs)
    \/ ExecuteCall
    \/ Execute
    \/ \E s \in Subscriptions, c \in Toolchains : LoadCompilerNext(s, c)
    \/ \E s \in Subscriptions, error \in LoadErrors : LoadCompilerError(s, error)
    \/ \E s \in Subscriptions, chunk \in OutputChunks : ProcOutput(s, chunk)
    \/ \E s \in Subscriptions, chunk \in ErrorChunks : ProcError(s, chunk)
    \/ Tick
    \/ \E s \in Subscriptions : ProcTimeout(s)
    \/ \E s \in Subscriptions, returnCode \in ReturnCodes : ProcFinish(s, returnCode)
    \/ \E s \in Subscriptions : ProcKilledFinish(s)

SettersFirstSpec == Init /\ [][SettersFirstNext]_vars

\* The setter putVariable alone, over a wider range of names and values
PutNames == {<<>>, <<" ">>, <<" ", "file", " ">>, <<"file">>, <<"n", " ">>, <<" ", "out">>}
PutValues ==
    {[t |-> "string", v |-> <<"main.py">>],
     [t |-> "number", v |-> 5],
     [t |-> "number", v |-> 42],
     [t |-> "boolean", v |-> TRUE],
     [t |-> "boolean", v |-> FALSE]}

\* variables the options given to the constructor may already hold
PutMaps ==
    {EmptyMap,
     (<<"n">> :> <<"true">>),
     (<<"n">> :> <<"7">>),
     (<<"file">> :> <<"a.c">>),
     (<<"out">> :> <<"a.out">>)}

PutInit ==
    /\ configs \in {[c EXCEPT !.variables = m] : c \in InitConfigs, m \in PutMaps}
    /\ pc = <<>>
    /\ lookup = <<>>
    /\ compiler = <<>>
    /\ procs = <<>>
    /\ delivered = <<>>
    /\ unhandled = <<>>
    /\ raised = <<>>
    /\ clock = [s |-> 0, ns |-> 0]
    /\ userTimeout = configs.executionTimeout
    /\ userInputs = configs.inputs
    /\ setterCalls = 0
    /\ created = FALSE

PutNext == \E name \in PutNames, value \in PutValues : PutVariable(name, value)

PutSpec == PutInit /\ [][PutNext]_vars

TypeOK ==
    /\ Len(pc) <= MaxSubscriptions
    /\ \A s \in DOMAIN pc :
          /\ pc[s] \in {"ResolvingToolchain", "Compiling", "Running", "Done", "Failed"}
          /\ lookup[s] \in {"pending", "answered", "failed"}
          /\ Len(procs[s]) <= 2
    /\ setterCalls \in 0..MaxSetterCalls

-----------------------------------------------------------------------------
(* Properties *)

Subs == DOMAIN pc
Resolved(s) == lookup[s] = "answered"
Quiescent(s) == \A i \in DOMAIN procs[s] : procs[s][i].status = "exited"
Exited(p) == p.status = "exited"
HasNext(d) == \E k \in DOMAIN d : d[k].kind = "next"
\* subscription s constructs a ProcessWrapper in this step
Spawned(s) == Len(procs'[s]) > Len(procs[s])
NewProc(s) == procs'[s][Len(procs'[s])]
\* the toolchain lookup of subscription s is answered in this step
Answered(s) == lookup[s] = "pending" /\ lookup'[s] = "answered"

\* C1: when the compile phase ends with a non-zero return code while
\* runCommand is set, execute() delivers the compile phase's result verbatim
\* as its single value and no subprocess is spawned for the run command.
C1_CompileFailurePassthrough ==
    \A s \in Subs : \A i \in DOMAIN procs[s] :
        ( /\ procs[s][i].phase = "compile"
          /\ procs[s][i].emitted # <<>>
          /\ procs[s][i].returnCode.val # 0
          /\ TruthyStr(compiler[s].runCommand)
          /\ configs.runCommand = compiler[s].runCommand )
        => /\ delivered[s] = <<NextOf(procs[s][i].emitted[1]), Complete>>
           /\ procs[s][i].emitted[1].returnCode = procs[s][i].returnCode.val
           /\ procs[s][i].emitted[1].data = procs[s][i].result
           /\ \A j \in DOMAIN procs[s] : procs[s][j].template # compiler[s].runCommand

\* C2: when runCommand is unset after toolchain resolution, execute() always
\* ends by delivering the error 'runCommand not found.' to the caller,
\* whether compileCommand is set or not.
C2_MissingRunCommandDelivered ==
    \A s \in Subs :
        (Resolved(s) /\ ~TruthyStr(compiler[s].runCommand) /\ Quiescent(s))
        => delivered[s] = <<ErrorOf(MissingRunCommand)>>

\* C3: when compileCommand is unset and runCommand is set, the compile phase
\* spawns nothing, exactly one subprocess is spawned (for the run command),
\* and when it exits with code 0 its result is delivered unmodified as the
\* single value of execute().
C3_NoCompileRunsOnce ==
    \A s \in Subs :
        ( /\ Resolved(s)
          /\ ~TruthyStr(compiler[s].compileCommand)
          /\ TruthyStr(compiler[s].runCommand) )
        => /\ Len(procs[s]) = 1
           /\ procs[s][1].phase = "run"
           /\ procs[s][1].template = compiler[s].runCommand
           /\ ~Exited(procs[s][1]) => delivered[s] = <<>>
           /\ (Exited(procs[s][1]) /\ procs[s][1].returnCode.val = 0)
              => /\ Len(procs[s][1].emitted) = 1
                 /\ procs[s][1].emitted[1].returnCode = 0
                 /\ delivered[s] = <<NextOf(procs[s][1].emitted[1]), Complete>>

C3_Witness ==
    \E s \in Subs :
        /\ Resolved(s)
        /\ ~TruthyStr(compiler[s].compileCommand)
        /\ Len(procs[s]) = 1
        /\ Exited(procs[s][1])
        /\ procs[s][1].returnCode.val = 0
        /\ Len(Chunks(procs[s][1])) > 0
        /\ HasNext(delivered[s])

\* C4: whenever compileCommand is set, the subprocess launched for the compile
\* phase executes the command built from the compileCommand template and no
\* input line is written to its standard input.
C4_CompileRunsCompileCommand ==
    [][\A s \in Subs :
        (Spawned(s) /\ NewProc(s).phase = "compile")
        => /\ NewProc(s).command = configureCommand(configs', configs'.compileCommand)
           /\ Writes(NewProc(s)) = <<>> ]_vars

\* C5: every failure raised by a process run, in the compile phase or in the
\* run phase, moves the orchestration to Failed and is delivered unchanged to
\* the caller of execute().
C5_RunFailureReachesCaller ==
    \A s \in Subs : \A i \in DOMAIN raised[s] :
        /\ pc[s] = "Failed"
        /\ delivered[s] = <<ErrorOf(raised[s][i])>>

\* C6: every orchestration started by execute() delivers exactly one terminal
\* outcome: one value followed by completion, or one error; never both,
\* never more than one value, and never none once the toolchain lookup has
\* answered and every spawned subprocess has emitted its exit event.
C6_ExactlyOneOutcome ==
    \A s \in Subs :
        /\ Len(delivered[s]) <= 2
        /\ Len(delivered[s]) = 1 => delivered[s][1].kind = "error"
        /\ Len(delivered[s]) = 2
           => (delivered[s][1].kind = "next" /\ delivered[s][2].kind = "complete")
        /\ (lookup[s] \in {"answered", "failed"} /\ Quiescent(s)) => delivered[s] # <<>>

\* C7: when executionTimeout elapses before the subprocess of a phase has
\* terminated, the subprocess is killed exactly once, execute() fails with an
\* error, and no success value is ever delivered.
C7_TimeoutFails ==
    \A s \in Subs : \A i \in DOMAIN procs[s] :
        Kills(procs[s][i]) # <<>>
        => /\ Len(Kills(procs[s][i])) = 1
           /\ ~HasNext(delivered[s])
           /\ Exited(procs[s][i])
              => (Len(delivered[s]) = 1 /\ delivered[s][1].kind = "error")

\* C8: when the toolchain lookup fails, execute() delivers the lookup error as
\* its single outcome, the failed lookup overwrites nothing in the descriptor
\* (when no other lookup has answered, the timeout is still the one the user
\* gave), and no subprocess is ever spawned for that subscription.
C8_LookupFailure ==
    /\ [](\A s \in Subs :
            lookup[s] = "failed"
            => /\ pc[s] = "Failed"
               /\ procs[s] = <<>>
               /\ \E e \in LoadErrors : delivered[s] = <<ErrorOf(e)>>)
    /\ [][\A s \in Subs :
            (lookup[s] = "pending" /\ lookup'[s] = "failed")
            => /\ configs' = configs
               /\ (\A r \in Subs : ~Resolved(r))
                  => configs'.executionTimeout = userTimeout']_vars

C8_Witness ==
    \E s \in Subs :
        /\ lookup[s] = "failed"
        /\ TruthyStr(configs.compileCommand)
        /\ TruthyNum(configs.executionTimeout)
        /\ delivered[s] # <<>>
        /\ setterCalls = MaxSetterCalls
        /\ \A r \in Subs : ~Resolved(r)

\* C9 (as stated): on resolution the working directory and both commands are
\* replaced by the toolchain's, the timeout is replaced by the toolchain
\* default only if it is unset, and any timeout the user set is the one in
\* force when a phase is launched.
C9_TimeoutKeptWhenSet ==
    /\ [][\A s \in Subs :
            Answered(s)
            => /\ configs'.filePath = compiler'[s].filePath
               /\ configs'.compileCommand = compiler'[s].compileCommand
               /\ configs'.runCommand = compiler'[s].runCommand
               /\ configs'.executionTimeout =
                      IF configs.executionTimeout.def
                      THEN configs.executionTimeout
                      ELSE compiler'[s].executionTimeout]_vars
    /\ [][\A s \in Subs :
            (Spawned(s) /\ userTimeout.def)
            => NewProc(s).executionTimeout = userTimeout]_vars

\* C9 (amended): on resolution the working directory and both commands are
\* replaced by the toolchain's, the timeout is replaced by the toolchain
\* default only if it is unset or zero, and any non-zero timeout the user set
\* is the one in force when a phase is launched.
C9_TimeoutKeptWhenNonZero ==
    /\ [][\A s \in Subs :
            Answered(s)
            => /\ configs'.filePath = compiler'[s].filePath
               /\ configs'.compileCommand = compiler'[s].compileCommand
               /\ configs'.runCommand = compiler'[s].runCommand
               /\ configs'.executionTimeout =
                      IF configs.executionTimeout.def /\ configs.executionTimeout.val # 0
                      THEN configs.executionTimeout
                      ELSE compiler'[s].executionTimeout]_vars
    /\ [][\A s \in Subs :
            (Spawned(s) /\ userTimeout.def /\ userTimeout.val # 0)
            => NewProc(s).executionTimeout = userTimeout]_vars

C9_Witness ==
    \E s \in Subs :
        /\ Resolved(s)
        /\ compiler[s].executionTimeout = Num(3000)
        /\ userTimeout = Num(1500)
        /\ compiler[s].compileCommand = CompileTemplate
        /\ Len(procs[s]) = 2
        /\ procs[s][1].executionTimeout = Num(1500)
        /\ procs[s][2].executionTimeout = Num(1500)

\* C10: the run-phase subprocess is written exactly the lines of the most
\* recent input-setter call, in order and at most once, there is one
\* run-phase subprocess per orchestration, and the write comes right after
\* launch, before any output chunk is accumulated.
C10_InputsWrittenOnce ==
    /\ [][\A s \in Subs :
            (Spawned(s) /\ NewProc(s).phase = "run")
            => /\ NewProc(s).result = <<>>
               /\ NewProc(s).log =
                      IF userInputs = <<>> THEN <<>>
                      ELSE <<[e |-> "writeInput", lines |-> userInputs]>>]_vars
    /\ [](\A s \in Subs : \A i \in DOMAIN procs[s] :
            procs[s][i].phase = "run"
            => /\ Len(Writes(procs[s][i])) <= 1
               /\ Writes(procs[s][i]) # <<>> => procs[s][i].log[1].e = "writeInput"
               /\ \A j \in DOMAIN procs[s] : procs[s][j].phase = "run" => j = i)

C10_Witness ==
    \E s \in Subs : \E i \in DOMAIN procs[s] :
        /\ procs[s][i].phase = "run"
        /\ Exited(procs[s][i])
        /\ Len(Chunks(procs[s][i])) > 0
        /\ Writes(procs[s][i]) = <<[e |-> "writeInput", lines |-> <<<<"5">>, <<"6">>>>]>>
        /\ setterCalls = 1

\* C11: putVariable(name, value) leaves the descriptor unchanged when the
\* trimmed name is empty; otherwise it sets exactly the entry keyed by the
\* trimmed name to the stringified value and leaves every other entry and
\* every other field of the descriptor unchanged.
C11_PutVariableFrame ==
    [][\A name \in PutNames, value \in PutValues :
        PutVariable(name, value)
        => LET key == trim(name)
           IN  IF key = <<>>
               THEN configs' = configs
               ELSE /\ DOMAIN configs'.variables = DOMAIN configs.variables \cup {key}
                    /\ configs'.variables[key] = toString(value)
                    /\ \A k \in DOMAIN configs.variables \ {key} :
                           configs'.variables[k] = configs.variables[k]
                    /\ configs'.filePath = configs.filePath
                    /\ configs'.executionTimeout = configs.executionTimeout
                    /\ configs'.compileCommand = configs.compileCommand
                    /\ configs'.runCommand = configs.runCommand
                    /\ configs'.inputs = configs.inputs]_vars

C11_Witness ==
    /\ setterCalls = 1
    /\ DOMAIN configs.variables = {<<"file">>, <<"n">>}
    /\ configs.variables[<<"file">>] = <<"5">>
    /\ configs.variables[<<"n">>] = <<"true">>
    /\ configs.inputs = <<<<"5">>>>

\* C12: when the command to execute in a phase is empty, the process run
\* fails at once with the missing-command error and no subprocess is spawned
\* for it.
C12_EmptyCommandNotSpawned ==
    /\ [][\A s \in Subs :
            Len(raised'[s]) > Len(raised[s])
            => /\ raised'[s][Len(raised'[s])] = MissingRunCommand
               /\ procs'[s] = procs[s]]_vars
    /\ [](\A s \in Subs : \A i \in DOMAIN procs[s] : TruthyStr(procs[s][i].command))

Live(s) == {i \in DOMAIN procs[s] : ~Exited(procs[s][i])}

\* The ordering of the subprocesses of one subscription: none before its
\* toolchain is resolved, at most one live at a time, the run phase launched
\* only once every earlier subprocess has exited.
SubprocessesSequential ==
    /\ [](\A s \in Subs : procs[s] # <<>> => lookup[s] = "answered")
    /\ [](\A s \in Subs : Cardinality(Live(s)) <= 1)
    /\ [][\A s \in Subs :
            (Spawned(s) /\ NewProc(s).phase = "run")
            => \A j \in DOMAIN procs[s] : Exited(procs'[s][j])]_vars

\* C13: the phases are strictly sequential: no phase starts before the
\* toolchain is resolved, at most one subprocess is live at any time, and
\* when there is a compile phase the run-phase subprocess is not spawned, and
\* the run command is not built, before the compile phase has delivered its
\* outcome.
C13_PhasesSequential ==
    /\ SubprocessesSequential
    /\ [][\A s \in Subs :
            (/\ Spawned(s)
             /\ TruthyStr(configs'.compileCommand)
             /\ NewProc(s).template = configs'.runCommand)
            => \E j \in DOMAIN procs[s] :
                   procs[s][j].phase = "compile" /\ procs[s][j].emitted # <<>>]_vars

\* C14: once the first phase has started, the timeout, the variables and the
\* inputs of the descriptor are no longer mutated, and the later phase runs
\* with the timeout and the variables the first phase ran with.
C14_DescriptorFrozenOncePhaseStarted ==
    /\ [][(\E s \in Subs : procs[s] # <<>>)
          => /\ configs'.executionTimeout = configs.executionTimeout
             /\ configs'.variables = configs.variables
             /\ configs'.inputs = configs.inputs]_vars
    /\ [][\A s \in Subs :
            (Spawned(s) /\ procs[s] # <<>>)
            => /\ NewProc(s).executionTimeout = procs[s][1].executionTimeout
               /\ NewProc(s).command = procs[s][1].command]_vars

\* the step in which compile() of subscription s emits the value out to
\* compileAndRun()
CompileEmits(s, out) ==
    \/ /\ Answered(s)
       /\ ~TruthyStr(configs'.compileCommand)
       /\ out = [returnCode |-> SUCCESS_CODE]
    \/ \E i \in DOMAIN procs[s] :
          /\ procs[s][i].phase = "compile"
          /\ procs[s][i].emitted = <<>>
          /\ procs'[s][i].emitted = <<out>>

RunAttempted(s) ==
    /\ Len(procs'[s]) = Len(procs[s]) + 1
    /\ NewProc(s).phase = "run"
    /\ delivered'[s] = delivered[s]

MissingRunSignalled(s) ==
    /\ Len(procs'[s]) = Len(procs[s])
    /\ delivered'[s] = <<ErrorOf(MissingRunCommand)>>

PassedThrough(s, out) ==
    /\ Len(procs'[s]) = Len(procs[s])
    /\ delivered'[s] = <<NextOf(out), Complete>>

CompileOutputs(s) ==
    {[returnCode |-> SUCCESS_CODE]}
    \cup {procs'[s][i].emitted[1] :
            i \in {j \in DOMAIN procs'[s] : procs'[s][j].emitted # <<>>}}

\* C15: for every value the compile phase emits exactly one of the three
\* branches fires (run phase attempted; 'runCommand not found.'; compile
\* result passed through), and the error 'Failed to compile.' is never
\* delivered.
C15_BranchesExhaustive ==
    /\ [][\A s \in Subs : \A out \in CompileOutputs(s) :
            CompileEmits(s, out)
            => /\ RunAttempted(s)
                  <=> (out.returnCode = SUCCESS_CODE /\ TruthyStr(configs'.runCommand))
               /\ MissingRunSignalled(s) <=> ~TruthyStr(configs'.runCommand)
               /\ PassedThrough(s, out)
                  <=> (out.returnCode # SUCCESS_CODE /\ TruthyStr(configs'.runCommand))]_vars
    /\ [](\A s \in Subs : \A k \in DOMAIN delivered[s] :
            delivered[s][k] # ErrorOf(FailedToCompile))

C15_Witness ==
    \E s \in Subs :
        /\ Len(procs[s]) = 2
        /\ procs[s][1].phase = "compile"
        /\ procs[s][1].emitted # <<>>
        /\ procs[s][2].phase = "run"
        /\ Exited(procs[s][2])
        /\ pc[s] = "Done"

RECURSIVE ConcatChunks(_)
ConcatChunks(evs) ==
    IF evs = <<>> THEN <<>> ELSE Head(evs).chunk \o ConcatChunks(Tail(evs))

\* C16: the data of a phase's result is the concatenation of every chunk the
\* subprocess delivered on standard output and standard error before its exit
\* event, in arrival order across both streams.
C16_DataIsChunksInOrder ==
    \A s \in Subs : \A i \in DOMAIN procs[s] :
        /\ procs[s][i].result = ConcatChunks(Chunks(procs[s][i]))
        /\ procs[s][i].emitted # <<>>
           => procs[s][i].emitted[1].data = ConcatChunks(Chunks(procs[s][i]))

C16_Witness ==
    \E s \in Subs : \E i \in DOMAIN procs[s] :
        /\ procs[s][i].emitted # <<>>
        /\ Len(Chunks(procs[s][i])) = 2
        /\ Chunks(procs[s][i])[1].e = "error"
        /\ Chunks(procs[s][i])[2].e = "output"
        /\ HasNext(delivered[s])

\* C17: the elapsed time reported in a phase's result is the wall-clock time
\* in milliseconds between the launch of the subprocess and its termination,
\* also for durations of one second or more.
C17_TookIsElapsedMs ==
    \A s \in Subs : \A i \in DOMAIN procs[s] :
        procs[s][i].emitted # <<>>
        => procs[s][i].emitted[1].took
           = Elapsed(procs[s][i].started, procs[s][i].finished)

\* C18: whenever a phase's subprocess is launched after a toolchain resolution
\* whose default timeout is positive, the executionTimeout passed to it is a
\* positive number, whatever timeout-setter calls were made before execute().
C18_TimeoutPositive ==
    [][\A s \in Subs :
        (/\ Spawned(s)
         /\ lookup'[s] = "answered"
         /\ compiler'[s].executionTimeout.def
         /\ compiler'[s].executionTimeout.val > 0)
        => /\ NewProc(s).executionTimeout.def
           /\ NewProc(s).executionTimeout.val > 0]_vars

\* Provenance of the delivered values: each one is the output run() built in
\* onFinish for one subprocess of that subscription that exited; the
\* synthesized {returnCode: 0} of a skipped compile step is not among them.
DeliveredIsRunOutput ==
    \A s \in Subs : \A k \in DOMAIN delivered[s] :
        delivered[s][k].kind = "next"
        => /\ DOMAIN delivered[s][k].value = {"data", "returnCode", "took"}
           /\ \E i \in DOMAIN procs[s] :
                 /\ Exited(procs[s][i])
                 /\ procs[s][i].returnCode.def
                 /\ delivered[s][k].value
                    = runOutput(procs[s][i], procs[s][i].returnCode.val,
                                procs[s][i].finished)

\* C19: the synthesized value {returnCode: 0} of a skipped compile step is
\* never delivered to the caller: every value execute() delivers is the result
\* of one subprocess of that subscription that exited, and carries that
\* subprocess's return code, its accumulated data and its elapsed time, the
\* wall-clock milliseconds between its launch and its termination.
C19_DeliveredValueIsSubprocessResult ==
    \A s \in Subs : \A k \in DOMAIN delivered[s] :
        delivered[s][k].kind = "next"
        => /\ DOMAIN delivered[s][k].value = {"data", "returnCode", "took"}
           /\ \E i \in DOMAIN procs[s] :
                 /\ Exited(procs[s][i])
                 /\ procs[s][i].returnCode.def
                 /\ delivered[s][k].value.returnCode = procs[s][i].returnCode.val
                 /\ delivered[s][k].value.data = ConcatChunks(Chunks(procs[s][i]))
                 /\ delivered[s][k].value.took
                    = Elapsed(procs[s][i].started, procs[s][i].finished)

\* C20: calling execute() has no effect by itself: until the returned stream
\* is subscribed the descriptor is changed by the setters only, no toolchain
\* lookup is issued and no subprocess is spawned; each subscription applies
\* the default options to the one descriptor and starts exactly one toolchain
\* lookup and one orchestration of its own, and its lookup is never issued
\* again.
C20_ExecuteIsLazy ==
    /\ [][(~created /\ created')
          => /\ configs' = configs
             /\ pc' = pc
             /\ lookup' = lookup
             /\ procs' = procs
             /\ delivered' = delivered]_vars
    /\ [](~created => lookup = <<>>)
    /\ [](Len(lookup) = Len(pc) /\ Len(procs) = Len(pc) /\ Len(delivered) = Len(pc))
    /\ [][(lookup' = <<>> /\ setterCalls' = setterCalls) => configs' = configs]_vars
    /\ [][Len(lookup') # Len(lookup)
          => /\ created
             /\ lookup' = Append(lookup, "pending")
             /\ pc' = Append(pc, "ResolvingToolchain")
             /\ procs' = Append(procs, <<>>)
             /\ delivered' = Append(delivered, <<>>)
             /\ configs' = configureDefaultOptions(configs)]_vars
    /\ [][\A s \in Subs :
            lookup'[s] # lookup[s]
            => lookup[s] = "pending" /\ lookup'[s] \in {"answered", "failed"}]_vars

C20_Witness ==
    /\ created
    /\ setterCalls = MaxSetterCalls
    /\ Len(lookup) = 2
    /\ lookup[1] = "answered"
    /\ procs[1] # <<>>
    /\ lookup[2] = "pending"
    /\ procs[2] = <<>>
    /\ configs.filePath = <<"/work">>

====
